---- MODULE Spec2Model ----
(***************************************************************************)
(* State-machine model of ClawWeb (src/clawweb/main.py): the breadth-first *)
(* Crawler, its filter pipeline, the Fetcher and the links-only mode.      *)
(*                                                                         *)
(* A URL is a sequence of tokens whose concatenation is the URL string:    *)
(*   <<"http://h", "/a", "#x">>  is  "http://h/a#x".                       *)
(* No token is a string prefix of another, so str.startswith on the        *)
(* strings is the prefix relation on the token sequences.                  *)
(***************************************************************************)
EXTENDS Integers, Sequences, FiniteSets, TLC

(* ---------------------------- bounds ----------------------------------- *)
\* how far below zero depth_limit is taken
BelowZero == 2
MaxDepthLimit == 2

(* ---------------------------- URL tokens ------------------------------- *)
NoHost == "None"
None == <<"None">>

SchemeTokens == {"http://h", "http://o", "mailto:x"}
PathTokens == {"/a", "/b&c", "/b&amp;c"}
FragTokens == {"#x", "#y"}

\* urllib.parse.urlparse(url).hostname
Hostname(url) ==
    IF url = <<>> THEN NoHost
    ELSE IF url[1] = "http://h" THEN "h"
    ELSE IF url[1] = "http://o" THEN "o"
    ELSE NoHost

\* str.startswith
StartsWith(url, prefix) ==
    /\ Len(prefix) <= Len(url)
    /\ \A i \in 1..Len(prefix) : url[i] = prefix[i]

\* index of the first fragment token of url, Len(url) + 1 when there is none
FragPos(url) ==
    IF \E i \in 1..Len(url) : url[i] \in FragTokens
    THEN CHOOSE i \in 1..Len(url) :
            /\ url[i] \in FragTokens
            /\ \A j \in 1..(i - 1) : url[j] \notin FragTokens
    ELSE Len(url) + 1

\* Crawler._pre_visit_url_condense: urldefrag(url)[0]
PreVisitUrlCondense(url) == SubSeq(url, 1, FragPos(url) - 1)

\* html.escape on one token: & becomes &amp;
EscapeToken(t) == IF t = "/b&c" THEN "/b&amp;c" ELSE t

\* html.escape(href)
Escape(href) == [i \in 1..Len(href) |-> EscapeToken(href[i])]

\* urllib.parse.urljoin(base, url)
UrlJoin(base, url) ==
    IF url = <<>> THEN base
    ELSE IF url[1] \in SchemeTokens THEN url
    ELSE IF url[1] \in PathTokens THEN <<base[1]>> \o url
    ELSE PreVisitUrlCondense(base) \o url

(* ---------------------------- inputs ----------------------------------- *)
Roots == { <<"http://h">>, <<"http://h", "/a", "#x">> }
DepthLimits == (0 - BelowZero)..MaxDepthLimit
ConfinePrefixes == { None, <<"http://h", "/a">> }
\* the last list holds a prefix that is no string: exclude=[None]
ExcludeLists == { <<>>, << <<"http://h", "/b&amp;c">> >>, << None >> }

\* an anchor is <<>> (no href attribute) or <<href>>
NoHref == <<>>
A(href) == <<href>>

BodyEmpty == << NoHref >>
BodyFrag == << A(<<"/a">>), A(<<"/a", "#x">>), NoHref, A(<<"/a">>) >>
BodyBack == << A(<<"http://h">>), A(<<"/b&c">>) >>
BodyMixed == << A(<<"mailto:x">>), A(<<"/a">>), A(<<"http://o", "/a">>) >>
BodySelf == << A(<<"#y">>), A(<<>>), A(<<"/b&c">>) >>
Bodies == { BodyEmpty, BodyFrag, BodyBack, BodyMixed, BodySelf }

Statuses == { "ok", "HTTPError", "URLError", "IncompleteRead" }
MimeTypes == { "text/html", "application/pdf" }

\* what the network answers to one GET
Responses == [ status : Statuses, mime_type : MimeTypes, anchors : Bodies ]

(* ---------------------------- Link ------------------------------------- *)
Link(src, dst, link_type) == [ src |-> src, dst |-> dst, link_type |-> link_type ]

\* object identity, what Link would compare by without __eq__ and __hash__
LinkEqIdentity(a, b) == FALSE

\* Link.__eq__
LinkEq(a, b) == a.src = b.src /\ a.dst = b.dst /\ a.link_type = b.link_type

\* link in self.links_remembered (hash of the triple, then __eq__)
LinkIn(link, links) == \E i \in 1..Len(links) : LinkEq(links[i], link)

(* ---------------------------- Fetcher ---------------------------------- *)
\* a containment test that never finds the URL
InOutUrlsNever(url, out_urls) == FALSE

\* url in self, by Fetcher.__getitem__
InOutUrls(url, out_urls) == \E i \in 1..Len(out_urls) : out_urls[i] = url

\* the loop over soup('a') of Fetcher.fetch
RECURSIVE ExtractLinks(_, _, _)
ExtractLinks(self_url, tags, out_urls) ==
    IF tags = <<>> THEN out_urls
    ELSE LET tag == Head(tags)
         IN IF tag = NoHref
            THEN ExtractLinks(self_url, Tail(tags), out_urls)
            ELSE LET url == UrlJoin(self_url, Escape(tag[1]))
                 IN ExtractLinks(self_url, Tail(tags),
                        IF InOutUrls(url, out_urls) THEN out_urls
                        ELSE Append(out_urls, url))

\* a fetch without the content-type test
FetchAnyType(self_url, resp) ==
    IF resp.status \in {"HTTPError", "URLError"}
    THEN [ raised |-> "", out_urls |-> <<>> ]
    ELSE IF resp.status = "IncompleteRead"
    THEN [ raised |-> "IncompleteRead", out_urls |-> <<>> ]
    ELSE [ raised |-> "", out_urls |-> ExtractLinks(self_url, resp.anchors, <<>>) ]

\* a fetch that parses the body of an HTTP error response
FetchErrorBody(self_url, resp) ==
    IF resp.status = "URLError"
    THEN [ raised |-> "", out_urls |-> <<>> ]
    ELSE IF resp.mime_type # "text/html"
    THEN [ raised |-> "NameError", out_urls |-> <<>> ]
    ELSE IF resp.status = "IncompleteRead"
    THEN [ raised |-> "IncompleteRead", out_urls |-> <<>> ]
    ELSE [ raised |-> "", out_urls |-> ExtractLinks(self_url, resp.anchors, <<>>) ]

\* Fetcher.fetch: the exception that leaves it ("" when it returns) and out_urls
Fetch(self_url, resp) ==
    IF resp.status \in {"HTTPError", "URLError"}
    THEN [ raised |-> "", out_urls |-> <<>> ]
    ELSE IF resp.mime_type # "text/html"
    THEN [ raised |-> "NameError", out_urls |-> <<>> ]
    ELSE IF resp.status = "IncompleteRead"
    THEN [ raised |-> "IncompleteRead", out_urls |-> <<>> ]
    ELSE [ raised |-> "", out_urls |-> ExtractLinks(self_url, resp.anchors, <<>>) ]

(* ---------------------------- state ------------------------------------ *)
VARIABLES
    mode,               \* "crawl": Crawler(...).crawl(); "links": getLinks(url)
    pc,                 \* "start", "loop", "done", "crashed"
    exit_code,          \* -1 while running, then the exit status of the process
    root, host, depth_limit, locked, confine_prefix, exclude_prefixes,
    pre_visit_filters, out_url_filters,
    urls_seen, urls_remembered, visited_links, links_remembered,
    num_links, num_followed,
    q,                  \* the frontier: a FIFO of <<url, depth>>
    output,             \* the lines getLinks printed: <<j, url>>
    put_log,            \* every item ever given to q.put, in order
    fetch_log,          \* every <<url, depth>> a Fetcher was asked to fetch, in order
    web,                \* the link graph met so far: fetched URL |-> its out_links()
    last                \* the loop iteration (or call) that has just completed

config == << mode, root, host, depth_limit, locked, confine_prefix,
             exclude_prefixes, pre_visit_filters, out_url_filters >>
crawler == << urls_seen, urls_remembered, visited_links, links_remembered,
              num_links, num_followed >>
vars == << config, crawler, pc, exit_code, q, output, put_log, fetch_log, web, last >>

DefaultDepthLimit == 30

\* follow filters without the confine filter
PreVisitFiltersNoPrefix == << "_exclude_ok", "_not_visited", "_same_host" >>

\* follow filters without the exclusion filter
PreVisitFiltersNoExclude == << "_prefix_ok", "_not_visited", "_same_host" >>

\* self.pre_visit_filters
PreVisitFilters == << "_prefix_ok", "_exclude_ok", "_not_visited", "_same_host" >>

\* report filters without the host filter
OutUrlFiltersNoHost(filter_seen) ==
    IF filter_seen THEN << "_prefix_ok" >> ELSE <<>>

\* self.out_url_filters
OutUrlFilters(filter_seen) ==
    IF filter_seen THEN << "_prefix_ok", "_same_host" >> ELSE <<>>

\* an iteration without a fetch
Completed(op, url, depth) ==
    [ op |-> op, url |-> url, depth |-> depth, status |-> "", mime_type |-> "",
      anchors |-> <<>>, out_urls |-> <<>> ]

\* an iteration with a fetch: the response's status, content type and anchor
\* tags, and page.out_links() when the Fetcher is dropped
Fetched(op, url, depth, resp, page) ==
    [ op |-> op, url |-> url, depth |-> depth, status |-> resp.status,
      mime_type |-> resp.mime_type, anchors |-> resp.anchors,
      out_urls |-> page.out_urls ]

\* the link graph after url has answered with out_urls
Served(url, out_urls) ==
    [ u \in (DOMAIN web) \cup { url } |-> IF u = url THEN out_urls ELSE web[u] ]

\* Crawler.__init__ with any arguments (mode "crawl"); main with -l, where no
\* Crawler is built and its fields stand at what Crawler(url, 30) would hold
\* (mode "links")
Init ==
    /\ mode \in { "crawl", "links" }
    /\ root \in Roots
    /\ host = Hostname(root)
    /\ IF mode = "crawl"
       THEN /\ depth_limit \in DepthLimits
            /\ locked \in BOOLEAN
            /\ confine_prefix \in ConfinePrefixes
            /\ exclude_prefixes \in ExcludeLists
            /\ \E filter_seen \in BOOLEAN :
                  out_url_filters = OutUrlFilters(filter_seen)
       ELSE /\ depth_limit = DefaultDepthLimit
            /\ locked = TRUE
            /\ confine_prefix = None
            /\ exclude_prefixes = <<>>
            /\ out_url_filters = OutUrlFilters(TRUE)
    /\ pre_visit_filters = PreVisitFilters
    /\ urls_seen = {}
    /\ urls_remembered = {}
    /\ visited_links = {}
    /\ links_remembered = <<>>
    /\ num_links = 0
    /\ num_followed = 0
    /\ q = <<>>
    /\ output = <<>>
    /\ put_log = <<>>
    /\ fetch_log = <<>>
    /\ web = <<>>
    /\ pc = "start"
    /\ exit_code = -1
    /\ last = Completed("none", <<>>, 0)

(* ---------------------------- filters ---------------------------------- *)
\* Crawler._prefix_ok
PrefixOk(url) == confine_prefix = None \/ StartsWith(url, confine_prefix)

\* Crawler._exclude_ok
ExcludeOk(url) ==
    \A i \in 1..Len(exclude_prefixes) : ~StartsWith(url, exclude_prefixes[i])

\* Crawler._exclude_ok raises TypeError: all() reaches a prefix that is no string
ExcludeRaises(url) ==
    \E i \in 1..Len(exclude_prefixes) :
        /\ exclude_prefixes[i] = None
        /\ \A j \in 1..(i - 1) : ~StartsWith(url, exclude_prefixes[j])

\* a _not_visited that never rejects
NotVisitedOff(url) == TRUE

\* Crawler._not_visited
NotVisited(url) == url \notin visited_links

\* Crawler._same_host
SameHost(url) == Hostname(url) = host

\* f(url) for f in a filter list
ApplyFilter(f, url) ==
    CASE f = "_prefix_ok" -> PrefixOk(url)
      [] f = "_exclude_ok" -> ExcludeOk(url)
      [] f = "_not_visited" -> NotVisited(url)
      [] f = "_same_host" -> SameHost(url)

\* f(url) raises
FilterRaises(f, url) == f = "_exclude_ok" /\ ExcludeRaises(url)

\* the list comprehension over filters is left by an exception
Raising(filters, url) == \E i \in 1..Len(filters) : FilterRaises(filters[i], url)

\* [f for f in filters if not f(url)]
Failing(filters, url) == SelectSeq(filters, LAMBDA f : ~ApplyFilter(f, url))

\* a depth test that is off by one
TooDeepStrict(depth) == depth >= depth_limit

\* a depth test that never discards
TooDeepOff(depth) == FALSE

\* depth > self.depth_limit
TooDeep(depth) == depth > depth_limit

(* ---------------------------- Crawler.crawl ---------------------------- *)
\* the part of the crawler one page's links can change
LoopState ==
    [ q |-> q, urls_seen |-> urls_seen, urls_remembered |-> urls_remembered,
      links_remembered |-> links_remembered, num_links |-> num_links,
      put_log |-> put_log ]

\* self.links_remembered.add(link) behind "if link not in"
AddLink(links, link) == IF LinkIn(link, links) THEN links ELSE Append(links, link)

\* an enqueue that does not record the URL in urls_seen
EnqueueLinkForget(st, link_url, depth) ==
    IF link_url \notin st.urls_seen
    THEN [ st EXCEPT !.q = Append(@, <<link_url, depth + 1>>),
                     !.put_log = Append(@, <<link_url, depth + 1>>) ]
    ELSE st

\* an enqueue at the head of the queue: a stack, not a FIFO
EnqueueLinkFront(st, link_url, depth) ==
    IF link_url \notin st.urls_seen
    THEN [ st EXCEPT !.q = << <<link_url, depth + 1>> >> \o @,
                     !.put_log = Append(@, <<link_url, depth + 1>>),
                     !.urls_seen = @ \cup { link_url } ]
    ELSE st

\* lines 90-92: enqueue an unseen URL
EnqueueLink(st, link_url, depth) ==
    IF link_url \notin st.urls_seen
    THEN [ st EXCEPT !.q = Append(@, <<link_url, depth + 1>>),
                     !.put_log = Append(@, <<link_url, depth + 1>>),
                     !.urls_seen = @ \cup { link_url } ]
    ELSE st

\* a recording that leaves urls_remembered alone
RememberLinkNoUrl(st, this_url, link_url) ==
    IF Failing(out_url_filters, link_url) = <<>>
    THEN [ st EXCEPT !.num_links = @ + 1,
                     !.links_remembered = AddLink(@, Link(this_url, link_url, "href")) ]
    ELSE st

\* a recording that tests the host whatever the report filters are
RememberLinkSameHost(st, this_url, link_url) ==
    IF SameHost(link_url) /\ Failing(out_url_filters, link_url) = <<>>
    THEN [ st EXCEPT !.num_links = @ + 1,
                     !.urls_remembered = @ \cup { link_url },
                     !.links_remembered = AddLink(@, Link(this_url, link_url, "href")) ]
    ELSE st

\* lines 93-99: count and remember a link that passes the report filters
RememberLink(st, this_url, link_url) ==
    IF Failing(out_url_filters, link_url) = <<>>
    THEN [ st EXCEPT !.num_links = @ + 1,
                     !.urls_remembered = @ \cup { link_url },
                     !.links_remembered = AddLink(@, Link(this_url, link_url, "href")) ]
    ELSE st

\* an iteration that remembers a link only when it also enqueues it
ProcessLinkUnseenOnly(st, this_url, link_url, depth) ==
    IF link_url \notin st.urls_seen
    THEN RememberLink(EnqueueLink(st, link_url, depth), this_url, link_url)
    ELSE st

\* one iteration of the loop over the page's links
ProcessLink(st, this_url, link_url, depth) ==
    RememberLink(EnqueueLink(st, link_url, depth), this_url, link_url)

\* lines 89-99: for link_url in [condense(l) for l in page.out_links()]
RECURSIVE ProcessLinks(_, _, _, _)
ProcessLinks(st, this_url, link_urls, depth) ==
    IF link_urls = <<>> THEN st
    ELSE ProcessLinks(ProcessLink(st, this_url, Head(link_urls), depth),
                      this_url, Tail(link_urls), depth)

Condensed(out_urls) == [ i \in 1..Len(out_urls) |-> PreVisitUrlCondense(out_urls[i]) ]

\* lines 72-73
CrawlBegin ==
    /\ mode = "crawl" /\ pc = "start"
    /\ q' = << <<root, 0>> >>
    /\ put_log' = Append(put_log, <<root, 0>>)
    /\ pc' = "loop"
    /\ last' = Completed("put_root", root, 0)
    /\ UNCHANGED << config, crawler, exit_code, output, fetch_log, web >>

\* lines 75-77: an item beyond the depth limit
Discard ==
    /\ pc = "loop" /\ q # <<>>
    /\ LET this_url == Head(q)[1]
           depth == Head(q)[2]
       IN /\ TooDeep(depth)
          /\ q' = Tail(q)
          /\ last' = Completed("discard", this_url, depth)
    /\ UNCHANGED << config, crawler, pc, exit_code, output, put_log, fetch_log, web >>

\* line 79, outside the try block: a follow filter raises and the exception
\* leaves crawl
FilterError ==
    /\ pc = "loop" /\ q # <<>>
    /\ LET this_url == Head(q)[1]
           depth == Head(q)[2]
       IN /\ ~TooDeep(depth)
          /\ Raising(pre_visit_filters, this_url)
          /\ q' = Tail(q)
          /\ last' = Completed("raise", this_url, depth)
    /\ pc' = "crashed"
    /\ exit_code' = 1
    /\ UNCHANGED << config, crawler, output, put_log, fetch_log, web >>

\* lines 79-83: an item some follow filter rejects
Reject ==
    /\ pc = "loop" /\ q # <<>>
    /\ LET this_url == Head(q)[1]
           depth == Head(q)[2]
       IN /\ ~TooDeep(depth)
          /\ ~Raising(pre_visit_filters, this_url)
          /\ Failing(pre_visit_filters, this_url) # <<>>
          /\ q' = Tail(q)
          /\ last' = Completed("reject", this_url, depth)
    /\ UNCHANGED << config, crawler, pc, exit_code, output, put_log, fetch_log, web >>

\* lines 83-101: an item that is fetched
Follow ==
    /\ pc = "loop" /\ q # <<>>
    /\ LET this_url == Head(q)[1]
           depth == Head(q)[2]
       IN /\ ~TooDeep(depth)
          /\ ~Raising(pre_visit_filters, this_url)
          /\ Failing(pre_visit_filters, this_url) = <<>>
          /\ \E resp \in Responses :
               LET page == Fetch(this_url, resp)
                   st0 == [ LoopState EXCEPT !.q = Tail(q) ]
                   st == IF page.raised # "" THEN st0
                         ELSE ProcessLinks(st0, this_url, Condensed(page.out_urls), depth)
               IN /\ visited_links' = visited_links \cup { this_url }
                  /\ num_followed' = num_followed + 1
                  /\ fetch_log' = Append(fetch_log, <<this_url, depth>>)
                  /\ web' = Served(this_url, page.out_urls)
                  /\ q' = st.q
                  /\ put_log' = st.put_log
                  /\ urls_seen' = st.urls_seen
                  /\ urls_remembered' = st.urls_remembered
                  /\ links_remembered' = st.links_remembered
                  /\ num_links' = st.num_links
                  /\ last' = Fetched("follow", this_url, depth, resp, page)
    /\ UNCHANGED << config, pc, exit_code, output >>

\* line 74 with the queue empty; main, lines 175-177
CrawlReturn ==
    /\ pc = "loop" /\ q = <<>>
    /\ pc' = "done"
    /\ exit_code' = 0
    /\ last' = Completed("return", <<>>, 0)
    /\ UNCHANGED << config, crawler, q, output, put_log, fetch_log, web >>

(* ---------------------------- getLinks --------------------------------- *)
\* "http" in url
HasHttp(url) == \E i \in 1..Len(url) : url[i] \in { "http://h", "http://o" }

\* a numbering by position: a skipped URL consumes a number
RECURSIVE PrintLinksByIndex(_, _, _)
PrintLinksByIndex(out_urls, j, lines) ==
    IF out_urls = <<>> THEN lines
    ELSE IF HasHttp(Head(out_urls))
         THEN PrintLinksByIndex(Tail(out_urls), j + 1, Append(lines, <<j, Head(out_urls)>>))
         ELSE PrintLinksByIndex(Tail(out_urls), j + 1, lines)

\* lines 150-154
RECURSIVE PrintLinks(_, _, _)
PrintLinks(out_urls, j, lines) ==
    IF out_urls = <<>> THEN lines
    ELSE IF HasHttp(Head(out_urls))
         THEN PrintLinks(Tail(out_urls), j + 1, Append(lines, <<j, Head(out_urls)>>))
         ELSE PrintLinks(Tail(out_urls), j, lines)

\* getLinks(url) and main, lines 169-171
GetLinks ==
    /\ mode = "links" /\ pc = "start"
    /\ \E resp \in Responses :
         LET page == Fetch(root, resp)
         IN /\ fetch_log' = Append(fetch_log, <<root, 0>>)
            /\ web' = Served(root, page.out_urls)
            /\ IF page.raised # ""
               THEN /\ pc' = "crashed"
                    /\ exit_code' = 1
                    /\ output' = output
               ELSE /\ pc' = "done"
                    /\ exit_code' = 0
                    /\ output' = PrintLinks(page.out_urls, 1, <<>>)
            /\ last' = Fetched("getLinks", root, 0, resp, page)
    /\ UNCHANGED << config, crawler, q, put_log >>

Next ==
    \/ CrawlBegin
    \/ Discard
    \/ FilterError
    \/ Reject
    \/ Follow
    \/ CrawlReturn
    \/ GetLinks

Spec == Init /\ [][Next]_vars

\* the process keeps running while it has a step to take
FairSpec == Spec /\ WF_vars(Next)

(* ---------------------------- properties ------------------------------- *)
\* the item the loop is about to dequeue
AtItem == pc = "loop" /\ q # <<>>
ThisUrl == Head(q)[1]
Depth == Head(q)[2]

\* this step is one loop iteration of crawl that fetched its item
CrawlFetchStep == AtItem /\ fetch_log' = Append(fetch_log, Head(q))

NonHtml(c) == c.status \notin { "HTTPError", "URLError" } /\ c.mime_type # "text/html"
TransportError(c) == c.status \in { "HTTPError", "URLError" }

\* the page of this step contributes nothing beyond the visit itself
ZeroLinksStep ==
    /\ visited_links' = visited_links \cup { ThisUrl }
    /\ num_followed' = num_followed + 1
    /\ q' = Tail(q)
    /\ pc' = "loop"
    /\ UNCHANGED << urls_seen, urls_remembered, links_remembered, num_links, put_log >>

NoRefetch ==
    \A i, j \in 1..Len(fetch_log) : i # j => fetch_log[i][1] # fetch_log[j][1]

\* the three follow filters that do not depend on the crawl's progress
StaticFollowOk(url) ==
    /\ confine_prefix = None \/ StartsWith(url, confine_prefix)
    /\ \A i \in 1..Len(exclude_prefixes) : ~StartsWith(url, exclude_prefixes[i])
    /\ Hostname(url) = Hostname(root)

\* C1: in a crawl no URL is fetched more than once, and after every completed
\* frontier item the size of visited_links equals num_followed.
C1_FetchedOnce ==
    mode = "crawl" => NoRefetch /\ Cardinality(visited_links) = num_followed

\* a visited URL came back to the head of the frontier and was turned away
C1_Witness ==
    /\ mode = "crawl" /\ last.op = "reject"
    /\ last.url \in visited_links /\ StaticFollowOk(last.url)
    /\ num_followed >= 1

\* C2 (as claimed): every URL is put on the frontier at most once, the initial
\* put of the root included.
C2_EnqueuedOnce ==
    \A i, j \in 1..Len(put_log) : i # j => put_log[i][1] # put_log[j][1]

Max(a, b) == IF a >= b THEN a ELSE b

C3_DiscardStep ==
    (AtItem /\ Depth > depth_limit)
        => /\ q' = Tail(q)
           /\ UNCHANGED << visited_links, urls_seen, links_remembered,
                           num_followed, num_links, fetch_log >>

C3_VisitedWithinLimit ==
    /\ \A i \in 1..Len(fetch_log) : mode = "crawl" => fetch_log[i][2] <= depth_limit
    /\ \A u \in visited_links : \E i \in 1..Len(fetch_log) : fetch_log[i][1] = u

\* C3 (as claimed): an item deeper than depth_limit is discarded with no fetch
\* and no change to the crawler's sets and counters, every visited URL was
\* dequeued at a depth <= depth_limit, and no frontier item is deeper than
\* depth_limit + 1.
C3_Original ==
    /\ [][C3_DiscardStep]_vars
    /\ [](C3_VisitedWithinLimit)
    /\ [](\A i \in 1..Len(q) : q[i][2] <= depth_limit + 1)

\* C3 (amended): as claimed, except that the frontier bound is
\* max(0, depth_limit + 1): the root item has depth 0 whatever depth_limit is.
C3_DepthLimit ==
    /\ [][C3_DiscardStep]_vars
    /\ [](C3_VisitedWithinLimit)
    /\ [](\A i \in 1..Len(q) : q[i][2] <= Max(0, depth_limit + 1))

\* an item beyond the limit has just been discarded, after pages were fetched
C3_Witness ==
    /\ last.op = "discard" /\ last.depth = depth_limit + 1
    /\ last.url \notin visited_links /\ num_followed >= 1

\* C4 (as claimed): with locked = TRUE, whatever confine, exclude and
\* filter_seen are, every remembered Link leads to the root's host.
C4_Original ==
    locked => \A i \in 1..Len(links_remembered) :
                  Hostname(links_remembered[i].dst) = Hostname(root)

\* C4 (amended): with locked = TRUE and the report filters in place
\* (filter_seen = True), whatever confine and exclude are, every remembered
\* Link leads to the root's host.
C4_SameHostLinks ==
    (locked /\ out_url_filters # <<>>) =>
        \A i \in 1..Len(links_remembered) :
            Hostname(links_remembered[i].dst) = Hostname(root)

\* a page with a link to another host was processed and links were remembered
C4_Witness ==
    /\ out_url_filters # <<>> /\ locked
    /\ last.op = "follow" /\ links_remembered # <<>>
    /\ \E i \in 1..Len(last.out_urls) : Hostname(last.out_urls[i]) = "o"

C5_RejectStep ==
    (AtItem /\ (~StaticFollowOk(ThisUrl) \/ ThisUrl \in visited_links))
        => UNCHANGED << visited_links, num_followed, fetch_log >>

\* C5: every fetched URL, the root included, passed all four follow filters
\* when it was dequeued, and an item failing any of them is not fetched and
\* leaves visited_links and num_followed unchanged.
C5_FollowFilters ==
    /\ [](mode = "crawl" =>
            /\ \A u \in visited_links : StaticFollowOk(u)
            /\ \A i \in 1..Len(fetch_log) : fetch_log[i][1] \in visited_links
            /\ NoRefetch)
    /\ [][C5_RejectStep]_vars

\* with a confine prefix and an exclusion list set, a page was fetched and an
\* item was then turned away by a follow filter
C5_Witness ==
    /\ confine_prefix # None /\ exclude_prefixes # <<>>
    /\ visited_links # {} /\ last.op = "reject" /\ ~StaticFollowOk(last.url)

\* C6: links_remembered never holds two Links with the same
\* (source, destination, type).
C6_NoDuplicateLinks ==
    \A i, j \in 1..Len(links_remembered) :
        i # j => ~( /\ links_remembered[i].src = links_remembered[j].src
                    /\ links_remembered[i].dst = links_remembered[j].dst
                    /\ links_remembered[i].link_type = links_remembered[j].link_type )

\* two remembered Links share a destination and differ in source, and the
\* last page offered one destination twice
C6_Witness ==
    /\ \E i, j \in 1..Len(links_remembered) :
          /\ links_remembered[i].dst = links_remembered[j].dst
          /\ links_remembered[i].src # links_remembered[j].src
    /\ num_links > Len(links_remembered)

C7_RecordStep ==
    CrawlFetchStep =>
        LET link_urls == Condensed(last'.out_urls)
            passing == { i \in 1..Len(link_urls) :
                            Failing(out_url_filters, link_urls[i]) = <<>> }
        IN /\ num_links' = num_links + Cardinality(passing)
           /\ \A i \in passing :
                /\ link_urls[i] \in urls_remembered'
                /\ \E k \in 1..Len(links_remembered') :
                      links_remembered'[k] = Link(ThisUrl, link_urls[i], "href")

\* C7: every outbound URL of a fetched page that passes the report filters is
\* counted in num_links and remembered as an edge, whether or not its
\* destination is new, within the depth limit or acceptable to the follow
\* filters; with depth_limit = 0 and an acceptable root the run ends with
\* num_followed = 1.
C7_RecordingIndependent ==
    /\ [][C7_RecordStep]_vars
    /\ []((mode = "crawl" /\ pc = "done" /\ depth_limit = 0 /\ StaticFollowOk(root))
            => num_followed = 1)

\* a run with depth_limit = 0 ended with one page fetched and links recorded,
\* one of them to the root itself
C7_Witness ==
    /\ pc = "done" /\ depth_limit = 0 /\ num_followed = 1 /\ num_links >= 2
    /\ \E i \in 1..Len(links_remembered) : links_remembered[i].dst = root

\* C8: in a crawl a fetched item whose response is not text/html is counted in
\* num_followed and visited_links and changes nothing else; the loop goes on.
C8_NonHtmlPage ==
    [][(CrawlFetchStep /\ NonHtml(last')) => ZeroLinksStep]_vars

\* a page other than the root was not HTML and the frontier still has items
C8_Witness ==
    /\ last.op = "follow" /\ NonHtml(last) /\ last.mime_type = "application/pdf"
    /\ num_followed >= 2 /\ q # <<>> /\ pc = "loop"

\* C9 (as claimed): a non-HTML response is never fatal, neither for crawl nor
\* for getLinks, which prints nothing and lets the process exit with code 0.
C9_NonHtmlNeverFatal ==
    (last.op \in { "follow", "getLinks" } /\ NonHtml(last))
        => /\ pc # "crashed"
           /\ exit_code \in { -1, 0 }
           /\ (last.op = "getLinks" => pc = "done" /\ exit_code = 0 /\ output = <<>>)

\* C10: in a crawl a fetch that fails with an HTTP or URL error yields zero
\* links, the loop goes on with the next item, and the URL is not fetched
\* again.
C10_TransportError ==
    /\ [][(CrawlFetchStep /\ TransportError(last')) => ZeroLinksStep]_vars
    /\ [](mode = "crawl" => NoRefetch)

\* a page other than the root failed with a transport error and the frontier
\* still has items
C10_Witness ==
    /\ last.op = "follow" /\ TransportError(last)
    /\ num_followed >= 2 /\ q # <<>> /\ pc = "loop"

\* C11 (as claimed): an exception raised while one frontier item is processed,
\* the evaluation of a follow filter included, is caught inside the loop and
\* never leaves Crawler.crawl.
C11_NoExceptionEscapes ==
    mode = "crawl" => (pc # "crashed" /\ last.op # "raise")

\* C12: when the root fails a follow filter the crawl yields nothing: nothing is
\* ever fetched, seen, counted or remembered, the root item is the only item
\* the frontier ever holds, and the finished run has all of them empty or zero.
C12_RootRejected ==
    (mode = "crawl" /\ ~StaticFollowOk(root)) =>
        /\ num_followed = 0 /\ num_links = 0
        /\ visited_links = {} /\ urls_seen = {} /\ urls_remembered = {}
        /\ links_remembered = <<>> /\ fetch_log = <<>>
        /\ Len(put_log) <= 1
        /\ (pc = "loop" => (q = <<>> <=> last.op # "put_root"))

\* the root was turned away at depth 0 and the run has finished
C12_Witness ==
    /\ mode = "crawl" /\ pc = "done" /\ ~StaticFollowOk(root)
    /\ depth_limit >= 0 /\ exit_code = 0
    /\ put_log = << <<root, 0>> >> /\ num_followed = 0

IsItemOp(op) == op \in { "discard", "reject", "follow", "raise" }

\* C13: the depths of the dequeued items never decrease: the frontier is sorted
\* by depth, spans at most two consecutive depths, and its head is no shallower
\* than the item dequeued last.
C13_BreadthFirst ==
    /\ \A i, j \in 1..Len(q) : i < j => q[i][2] <= q[j][2]
    /\ \A i \in 1..Len(q) : IsItemOp(last.op) =>
            (last.depth <= q[i][2] /\ q[i][2] <= last.depth + 1)

\* on a graph with a link back to the root, an item of depth 2 waits behind
\* items of depth 1
C13_Witness ==
    /\ Len(q) >= 2 /\ q[1][2] = 1 /\ q[Len(q)][2] = 2
    /\ \E i \in 2..Len(put_log) : put_log[i][1] = root

C14_RecordStep ==
    (CrawlFetchStep /\ out_url_filters = <<>>) =>
        LET link_urls == Condensed(last'.out_urls)
        IN /\ num_links' = num_links + Len(last'.out_urls)
           /\ \A i \in 1..Len(link_urls) :
                /\ link_urls[i] \in urls_remembered'
                /\ \E k \in 1..Len(links_remembered') :
                      links_remembered'[k] = Link(ThisUrl, link_urls[i], "href")

\* C14: with the report filters disabled every outbound URL of a fetched page
\* is counted, remembered and recorded as an edge, whatever its host and
\* prefix, while the follow filters still decide what is fetched.
C14_RecordEverything ==
    /\ [][C14_RecordStep]_vars
    /\ [](mode = "crawl" => \A u \in visited_links : StaticFollowOk(u))

\* a finished run without report filters remembers an edge to a URL of another
\* host, which was never fetched
C14_Witness ==
    /\ pc = "done" /\ out_url_filters = <<>>
    /\ \E i \in 1..Len(links_remembered) :
          /\ Hostname(links_remembered[i].dst) = "o"
          /\ links_remembered[i].dst \in urls_remembered
          /\ links_remembered[i].dst \notin visited_links

FragmentFree(url) == \A i \in 1..Len(url) : url[i] \notin FragTokens

\* C15 (as claimed): every URL put on the frontier or fetched, the root
\* included, is free of a fragment, so no two URLs that differ only in their
\* fragment are both enqueued or both fetched.
C15_FragmentFree ==
    /\ \A i \in 1..Len(put_log) : FragmentFree(put_log[i][1])
    /\ \A u \in visited_links : FragmentFree(u)
    /\ \A i, j \in 1..Len(put_log) :
          PreVisitUrlCondense(put_log[i][1]) = PreVisitUrlCondense(put_log[j][1])
              => put_log[i][1] = put_log[j][1]
    /\ \A u, v \in visited_links :
          PreVisitUrlCondense(u) = PreVisitUrlCondense(v) => u = v

\* the hrefs of the anchors that have one, resolved against the page's URL
Resolved(url, anchors) ==
    LET tags == SelectSeq(anchors, LAMBDA t : t # NoHref)
    IN [ i \in 1..Len(tags) |-> UrlJoin(url, Escape(tags[i][1])) ]

FirstIndex(seq, x) ==
    CHOOSE i \in 1..Len(seq) : seq[i] = x /\ \A j \in 1..(i - 1) : seq[j] # x

HtmlPage(c) ==
    c.op \in { "follow", "getLinks" } /\ c.status = "ok" /\ c.mime_type = "text/html"

\* C16: for an HTML page out_links() holds each resolved href once, in the
\* order of first occurrence in the document; anchors without href add nothing.
C16_OutLinksDeduplicated ==
    HtmlPage(last) =>
        LET r == Resolved(last.url, last.anchors)
            o == last.out_urls
        IN /\ \A i, j \in 1..Len(o) : i # j => o[i] # o[j]
           /\ { o[i] : i \in 1..Len(o) } = { r[k] : k \in 1..Len(r) }
           /\ \A i, j \in 1..Len(o) : i < j => FirstIndex(r, o[i]) < FirstIndex(r, o[j])

\* a page with a repeated href and an anchor without href was fetched
C16_Witness ==
    /\ HtmlPage(last)
    /\ Len(last.out_urls) >= 2
    /\ Len(last.out_urls) < Len(Resolved(last.url, last.anchors))
    /\ Len(Resolved(last.url, last.anchors)) < Len(last.anchors)

\* C17: in links-only mode only the root is fetched, and the output is the
\* out_links() that contain "http", in order, numbered 1..k without gaps.
C17_LinksOnlyOutput ==
    mode = "links" =>
        /\ \A i \in 1..Len(fetch_log) : i = 1 /\ fetch_log[i][1] = root
        /\ LET shown == SelectSeq(last.out_urls, HasHttp)
           IN output = [ k \in 1..Len(shown) |-> <<k, shown[k]>> ]

\* getLinks printed two numbered lines after skipping a first URL without "http"
C17_Witness ==
    /\ mode = "links" /\ pc = "done" /\ exit_code = 0
    /\ Len(output) = 2 /\ Len(last.out_urls) = 3
    /\ ~HasHttp(last.out_urls[1])
    /\ output[1][1] = 1 /\ output[2][1] = 2

\* C18: crawl terminates: the number of items ever put is at most the number
\* of distinct URLs put plus one, and the run ends (by return, or by the
\* exception of C11) with the frontier empty.
C18_Terminates ==
    /\ [](Len(put_log) <= Cardinality({ put_log[i][1] : i \in 1..Len(put_log) }) + 1)
    /\ <>(mode = "crawl" => (pc \in { "done", "crashed" } /\ q = <<>>))
    /\ [](pc = "done" => q = <<>>)

\* a crawl over a graph with a link back to the root and a self-link has
\* returned after fetching three pages
C18_Witness ==
    /\ mode = "crawl" /\ pc = "done" /\ q = <<>> /\ num_followed >= 3
    /\ \E i \in 2..Len(put_log) : put_log[i][1] = root
    /\ \E u \in DOMAIN web : \E i \in 1..Len(web[u]) : PreVisitUrlCondense(web[u][i]) = u

\* the URLs the page of u links to, in the graph met so far
LinksOf(u) ==
    IF u \in DOMAIN web
    THEN { PreVisitUrlCondense(web[u][i]) : i \in 1..Len(web[u]) }
    ELSE {}

\* the URLs a chain of at most k links reaches from the root, every URL of the
\* chain passing the static follow filters
RECURSIVE Within(_)
Within(k) ==
    IF k < 0 THEN {}
    ELSE IF k = 0 THEN (IF StaticFollowOk(root) THEN { root } ELSE {})
    ELSE LET prev == Within(k - 1)
         IN prev \cup { v \in UNION { LinksOf(u) : u \in prev } : StaticFollowOk(v) }

\* C19: for a fragment-free root, when crawl returns visited_links is the set of
\* URLs within depth_limit links of the root along URLs that pass the static
\* follow filters, and num_followed is its size.
C19_VisitedIsReachable ==
    (mode = "crawl" /\ pc = "done" /\ FragmentFree(root)) =>
        /\ visited_links = Within(depth_limit)
        /\ num_followed = Cardinality(Within(depth_limit))

\* default settings, a root that links to a page of its host and to a page of
\* another host: two pages followed, one link found
C19_Witness ==
    /\ mode = "crawl" /\ pc = "done" /\ FragmentFree(root)
    /\ confine_prefix = None /\ exclude_prefixes = <<>> /\ locked
    /\ out_url_filters # <<>> /\ depth_limit >= 1
    /\ LinksOf(root) = { <<"mailto:x">>, <<"http://h", "/a">>, <<"http://o", "/a">> }
    /\ num_followed = 2 /\ num_links = 1
    /\ visited_links = { root, <<"http://h", "/a">> }

\* C20: after every completed item urls_remembered is the set of destinations
\* of links_remembered, every Link has a visited source and type "href",
\* urls_remembered is within urls_seen and num_links >= |links_remembered|.
C20_OutputsConsistent ==
    /\ urls_remembered = { links_remembered[i].dst : i \in 1..Len(links_remembered) }
    /\ \A i \in 1..Len(links_remembered) :
          /\ links_remembered[i].src \in visited_links
          /\ links_remembered[i].link_type = "href"
    /\ urls_remembered \subseteq urls_seen
    /\ num_links >= Len(links_remembered)

\* a page with two hrefs that differ only in the fragment was processed:
\* two links counted, one edge
C20_Witness ==
    /\ last.op = "follow" /\ num_links = 2 /\ Len(links_remembered) = 1
    /\ Len(last.out_urls) = 2
    /\ PreVisitUrlCondense(last.out_urls[1]) = PreVisitUrlCondense(last.out_urls[2])

====
